---- MODULE Spec2Model ----
(***************************************************************************)
(* geospatialtools: get_grid_from_df, getInterpArray_griddata,             *)
(* getInterpArray_rbf (interpolators.py) and clipDFbyShape                 *)
(* (clipDFbyShape.py), as a state machine of a caller that owns a table    *)
(* and a grid and calls the four functions on them.                        *)
(*                                                                         *)
(* Encodings.  A float is an integer, np.nan is NaN.  A Python str is the  *)
(* sequence of its characters.  An optional value is [none, v].  A numpy   *)
(* array is [shape, data] with data in row-major order.  The array an      *)
(* interpolator returns is its shape and what the code handed to scipy:    *)
(* its numbers are scipy's, a function of what it was handed.              *)
(***************************************************************************)
EXTENDS Integers, Sequences, FiniteSets, TLC

VARIABLES df, my_grid, defaults, last, events

vars == <<df, my_grid, defaults, last, events>>

\* The longest table the caller builds.
MaxRows == 3

NaN == -1

isnan(v) == v = NaN

----------------------------------------------------------------------------
\* Python values

None == [none |-> TRUE, v |-> <<>>]

Some(v) == [none |-> FALSE, v |-> v]

\* `a or d` for an optional str: None and "" are falsy.
Or(a, d) == IF a.none \/ a.v = <<>> THEN d ELSE a.v

UpperCase == <<"A","B","C","D","E","F","G","H","I","J","K","L","M",
               "N","O","P","Q","R","S","T","U","V","W","X","Y","Z">>

LowerCase == <<"a","b","c","d","e","f","g","h","i","j","k","l","m",
               "n","o","p","q","r","s","t","u","v","w","x","y","z">>

lower_char(c) ==
    IF \E i \in 1..Len(UpperCase) : UpperCase[i] = c
    THEN LowerCase[CHOOSE i \in 1..Len(UpperCase) : UpperCase[i] = c]
    ELSE c

\* str.lower()
lower(s) == [i \in 1..Len(s) |-> lower_char(s[i])]

s_linear       == <<"l","i","n","e","a","r">>
s_cubic        == <<"c","u","b","i","c">>
s_quintic      == <<"q","u","i","n","t","i","c">>
s_thin_plate   == <<"t","h","i","n","_","p","l","a","t","e">>
s_multiquadric == <<"m","u","l","t","i","q","u","a","d","r","i","c">>
s_inverse      == <<"i","n","v","e","r","s","e">>
s_gaussian     == <<"g","a","u","s","s","i","a","n">>
s_nearest      == <<"n","e","a","r","e","s","t">>
s_foobar       == <<"f","o","o","b","a","r">>
s_Linear       == <<"L","i","n","e","a","r">>
s_NEAREST      == <<"N","E","A","R","E","S","T">>
s_empty        == << >>

----------------------------------------------------------------------------
\* Tables (pandas.DataFrame)

Columns == {"lon", "lat", "temperature_2m"}

Row(x, y, z) == [lon |-> x, lat |-> y, temperature_2m |-> z]

\* The rows the caller draws from: three points that are not collinear, a
\* row with the coordinates of another and no value, and rows with a missing
\* coordinate.
RowPool ==
    { Row(1, 10, 5), Row(3, 10, 6), Row(2, 20, 7),
      Row(3, 10, NaN), Row(NaN, 20, 5), Row(1, NaN, 6) }

Table(rows) == [columns |-> Columns, rows |-> rows]

HasColumn(t, c) == c \in t.columns

\* df[c].to_numpy()
Column(t, c) == [i \in 1..Len(t.rows) |-> t.rows[i][c]]

----------------------------------------------------------------------------
\* numpy / pandas helpers used by get_grid_from_df

Member(s, v) == \E i \in 1..Len(s) : s[i] = v

RECURSIVE UniqueFrom(_, _)
UniqueFrom(s, acc) ==
    IF s = <<>> THEN acc
    ELSE UniqueFrom(Tail(s),
                    IF Member(acc, Head(s)) THEN acc ELSE Append(acc, Head(s)))

\* Series.unique(): the distinct values in order of appearance; all NaN are
\* one value.
unique(s) == UniqueFrom(s, <<>>)

\* The order of np.sort: ascending, NaN after every number.
SortsBefore(a, b) == ~isnan(a) /\ (isnan(b) \/ a < b)

RECURSIVE Insert(_, _)
Insert(s, v) ==
    IF s = <<>> THEN <<v>>
    ELSE IF SortsBefore(v, Head(s)) THEN <<v>> \o s
    ELSE <<Head(s)>> \o Insert(Tail(s), v)

RECURSIVE SortFrom(_, _)
SortFrom(s, acc) ==
    IF s = <<>> THEN acc ELSE SortFrom(Tail(s), Insert(acc, Head(s)))

\* A get_grid_from_df that leaves np.sort out: the axes keep the order of
\* appearance.
sort_left_out(s) == s

\* np.sort
sort(s) == SortFrom(s, <<>>)

Array(shape, data) == [shape |-> shape, data |-> data]

\* np.meshgrid(x, y), indexing 'xy': two arrays of shape (len(y), len(x)).
meshgrid(x, y) ==
    LET nx == Len(x)
        ny == Len(y)
    IN  << Array(<<ny, nx>>, [k \in 1..(ny * nx) |-> x[((k - 1) % nx) + 1]]),
           Array(<<ny, nx>>, [k \in 1..(ny * nx) |-> y[((k - 1) \div nx) + 1]]) >>

\* a[i][j] of a 2-D array, i and j from 0.
At(a, i, j) == a.data[i * a.shape[2] + j + 1]

----------------------------------------------------------------------------
\* Outcomes of a call

\* What the code hands to scipy: the library entry point, the points and
\* values it fits and the kernel (Rbf's `function`).
NotHanded == [lib |-> "", points |-> <<>>, values |-> <<>>, function |-> <<>>]

Handed(lib, points, values, function) ==
    [lib |-> lib, points |-> points, values |-> values, function |-> function]

\* kind: "none" (no call yet), "return" or "raise"; exc and at: the Python
\* exception and the statement that raises it; grid: the tuple
\* get_grid_from_df returns; shape: the shape of the array an interpolator
\* returns; cols: the columns of the table clipDFbyShape returns.
NoOutcome == [kind |-> "none", exc |-> "", at |-> "", grid |-> <<>>,
              handed |-> NotHanded, shape |-> <<>>, cols |-> {}]

Raise(exc, at) == [NoOutcome EXCEPT !.kind = "raise", !.exc = exc, !.at = at]

RaiseAfter(exc, at, h) == [Raise(exc, at) EXCEPT !.handed = h]

ReturnGrid(g) == [NoOutcome EXCEPT !.kind = "return", !.grid = g]

ReturnZ(shape, h) ==
    [NoOutcome EXCEPT !.kind = "return", !.shape = shape, !.handed = h]

ReturnCols(c) == [NoOutcome EXCEPT !.kind = "return", !.cols = c]

\* What a call leaves behind: the objects it was handed, as they are when it
\* ends, the events it reported (log records, warnings, prints) and its
\* possible outcomes (more than one where scipy builds differ).
Effect(t, pxy, g, ev, outs) ==
    [df |-> t, points_xy |-> pxy, my_grid |-> g, events |-> ev, outs |-> outs]

----------------------------------------------------------------------------
\* get_grid_from_df

get_grid_from_df(t, points_xy) ==
    Effect(t, points_xy, None, <<>>,
        IF ~HasColumn(t, points_xy[1]) THEN {Raise("KeyError", "x_unique")}
        ELSE IF ~HasColumn(t, points_xy[2]) THEN {Raise("KeyError", "y_unique")}
        ELSE LET x_unique == sort(unique(Column(t, points_xy[1])))
                 y_unique == sort(unique(Column(t, points_xy[2])))
             IN  {ReturnGrid(meshgrid(x_unique, y_unique))})

----------------------------------------------------------------------------
\* scipy.interpolate.griddata and scipy.interpolate.Rbf, as far as the
\* callers' contracts need them: when they raise and the shape they return.

Point(x, y) == <<x, y>>

\* Twice the signed area of the triangle p, q, r.
Cross(p, q, r) ==
    (q[1] - p[1]) * (r[2] - p[2]) - (q[2] - p[2]) * (r[1] - p[1])

\* A Delaunay triangulation exists: three of the points are not collinear.
Triangulable(points) ==
    \E i, j, k \in 1..Len(points) :
        Cross(points[i], points[j], points[k]) # 0

\* np.broadcast_arrays on two shapes: aligned from the last axis, an axis of
\* length 1 stretches.
Max(a, b) == IF a >= b THEN a ELSE b

Axis(shape, k, n) ==
    LET i == k - (n - Len(shape)) IN IF i >= 1 THEN shape[i] ELSE 1

Broadcastable(s1, s2) ==
    LET n == Max(Len(s1), Len(s2))
    IN  \A k \in 1..n :
            \/ Axis(s1, k, n) = Axis(s2, k, n)
            \/ Axis(s1, k, n) = 1
            \/ Axis(s2, k, n) = 1

Broadcast(s1, s2) ==
    LET n == Max(Len(s1), Len(s2))
    IN  [k \in 1..n |->
            IF Axis(s1, k, n) = 1 THEN Axis(s2, k, n) ELSE Axis(s1, k, n)]

\* griddata(points, values, (Xg, Yg), method=method) on 2-D points.  nearest
\* builds a k-d tree, linear and cubic a Delaunay triangulation, which Qhull
\* refuses for fewer than three points and for collinear points; any other
\* method is a ValueError.  The result has the broadcast shape of Xg and Yg.
\* On no points at all the outcome differs between scipy builds.
griddata(points, values, Xg, Yg, method) ==
    LET h == Handed("griddata", points, values, <<>>)
        evaluated ==
            IF Broadcastable(Xg.shape, Yg.shape)
            THEN {ReturnZ(Broadcast(Xg.shape, Yg.shape), h)}
            ELSE {RaiseAfter("ValueError", "griddata", h)}
    IN  IF ~method.none /\ method.v = s_nearest
        THEN IF Len(points) = 0
             THEN evaluated \cup {RaiseAfter("IndexError", "griddata", h)}
             ELSE evaluated
        ELSE IF ~method.none /\ method.v \in {s_linear, s_cubic}
        THEN IF Triangulable(points) THEN evaluated
             ELSE IF Len(points) = 0
             THEN {RaiseAfter("QhullError", "griddata", h),
                   RaiseAfter("ValueError", "griddata", h)}
             ELSE {RaiseAfter("QhullError", "griddata", h)}
        ELSE {RaiseAfter("ValueError", "griddata", h)}

\* Rbf(x, y, z, function=function, smooth=0.0): the fit.  No points: the
\* reduction that sets epsilon fails; one location only: epsilon divides by
\* zero; two rows at one location: the kernel matrix is singular.  The kernel
\* matrices of the other point sets of RowPool are regular for all seven
\* kernels.
Rbf(x, y, z, function) ==
    LET h == Handed("Rbf", [i \in 1..Len(x) |-> Point(x[i], y[i])], z, function)
    IN  IF Len(x) = 0 THEN {RaiseAfter("ValueError", "Rbf", h)}
        ELSE IF \A i \in 1..Len(x) : x[i] = x[1] /\ y[i] = y[1]
        THEN {RaiseAfter("ZeroDivisionError", "Rbf", h)}
        ELSE IF \E i, j \in 1..Len(x) : i # j /\ x[i] = x[j] /\ y[i] = y[j]
        THEN {RaiseAfter("LinAlgError", "Rbf", h)}
        ELSE {ReturnZ(<<>>, h)}

\* rbf(Xg, Yg): the fitted model evaluated on the grid; Rbf.__call__ wants
\* arrays of one shape and returns that shape.
rbf_call(fit, Xg, Yg) ==
    IF fit.kind # "return" THEN fit
    ELSE IF Xg.shape # Yg.shape THEN RaiseAfter("ValueError", "rbf", fit.handed)
    ELSE ReturnZ(Xg.shape, fit.handed)

----------------------------------------------------------------------------
\* getInterpArray_griddata

\* seq[mask]: boolean-mask indexing.
RECURSIVE Compress(_, _)
Compress(seq, mask) ==
    IF seq = <<>> THEN <<>>
    ELSE (IF Head(mask) THEN <<Head(seq)>> ELSE <<>>)
         \o Compress(Tail(seq), Tail(mask))

\* A mask that tests the coordinates and forgets the values.
griddata_mask_without_values(points, values) ==
    [i \in 1..Len(values) |-> ~(isnan(points[i][1]) \/ isnan(points[i][2]))]

griddata_mask(points, values) ==
    [i \in 1..Len(values) |->
        ~isnan(values[i]) /\ ~(isnan(points[i][1]) \/ isnan(points[i][2]))]

\* points and values after `points = points[mask]; values = values[mask]`.
griddata_filtered(t, points_xy, feature) ==
    LET points == [i \in 1..Len(t.rows) |->
                      Point(t.rows[i][points_xy[1]], t.rows[i][points_xy[2]])]
        values == Column(t, feature)
        mask   == griddata_mask(points, values)
    IN  [points |-> Compress(points, mask), values |-> Compress(values, mask)]

\* A filter that drops the rows from the caller's table itself
\* (df.dropna(inplace=True) in place of the mask).
table_after_mask_in_place(t, mask) == Table(Compress(t.rows, mask))

\* The caller's table after the masking statements: they index copies made
\* by to_numpy() and rebind local names.
table_after_mask(t, mask) == t

\* An unpacking that flattens the grid (Xg.ravel(), Yg.ravel()).
unpack_grid_ravel(g) ==
    LET Size(a) == IF Len(a.shape) = 2 THEN a.shape[1] * a.shape[2]
                   ELSE IF Len(a.shape) = 1 THEN a.shape[1] ELSE 1
    IN  << Array(<<Size(g.v[1])>>, g.v[1].data),
           Array(<<Size(g.v[2])>>, g.v[2].data) >>

\* Xg, Yg = my_grid
unpack_grid(g) == <<g.v[1], g.v[2]>>

getInterpArray_griddata(t, points_xy, feature, g, my_method) ==
    IF g.none \/ Len(g.v) # 2
    THEN Effect(t, points_xy, g, <<>>, {Raise("ValueError", "grid_check")})
    ELSE IF ~HasColumn(t, points_xy[1]) \/ ~HasColumn(t, points_xy[2])
    THEN Effect(t, points_xy, g, <<>>, {Raise("KeyError", "points")})
    ELSE IF ~HasColumn(t, feature)
    THEN Effect(t, points_xy, g, <<>>, {Raise("KeyError", "values")})
    ELSE LET f    == griddata_filtered(t, points_xy, feature)
             mask == griddata_mask(
                         [i \in 1..Len(t.rows) |->
                             Point(t.rows[i][points_xy[1]], t.rows[i][points_xy[2]])],
                         Column(t, feature))
             XgYg == unpack_grid(g)
         IN  Effect(table_after_mask(t, mask), points_xy, g, <<>>,
                    griddata(f.points, f.values, XgYg[1], XgYg[2], my_method))

----------------------------------------------------------------------------
\* getInterpArray_rbf

RbfKernels == {s_linear, s_cubic, s_quintic, s_thin_plate, s_multiquadric,
               s_inverse, s_gaussian}

\* A mapping without the `elif method_lower == "nearest"` branch.
rbf_func_without_nearest(my_method) ==
    LET method_lower == lower(Or(my_method, s_empty))
    IN  IF method_lower \in RbfKernels THEN method_lower ELSE s_thin_plate

rbf_func(my_method) ==
    LET method_lower == lower(Or(my_method, s_empty))
    IN  IF method_lower \in RbfKernels THEN method_lower
        ELSE IF method_lower = s_nearest THEN s_linear
        ELSE s_thin_plate

rbf_mask(x, y, z) ==
    [i \in 1..Len(z) |-> ~isnan(x[i]) /\ ~isnan(y[i]) /\ ~isnan(z[i])]

\* x, y and z after `x, y, z = x[mask], y[mask], z[mask]`.
rbf_filtered(t, points_xy, feature) ==
    LET x == Column(t, points_xy[1])
        y == Column(t, points_xy[2])
        z == Column(t, feature)
        mask == rbf_mask(x, y, z)
    IN  [x |-> Compress(x, mask), y |-> Compress(y, mask), z |-> Compress(z, mask)]

\* The events getInterpArray_rbf reports while it maps the method to a
\* kernel: it logs, warns and prints nothing.
rbf_events(my_method) == <<>>

getInterpArray_rbf(t, points_xy, feature, g, my_method) ==
    IF g.none \/ Len(g.v) # 2
    THEN Effect(t, points_xy, g, <<>>, {Raise("ValueError", "grid_check")})
    ELSE IF ~HasColumn(t, points_xy[1])
    THEN Effect(t, points_xy, g, <<>>, {Raise("KeyError", "x")})
    ELSE IF ~HasColumn(t, points_xy[2])
    THEN Effect(t, points_xy, g, <<>>, {Raise("KeyError", "y")})
    ELSE IF ~HasColumn(t, feature)
    THEN Effect(t, points_xy, g, <<>>, {Raise("KeyError", "z")})
    ELSE LET f    == rbf_filtered(t, points_xy, feature)
             mask == rbf_mask(Column(t, points_xy[1]), Column(t, points_xy[2]),
                              Column(t, feature))
             XgYg == unpack_grid(g)
         IN  Effect(table_after_mask(t, mask), points_xy, g, rbf_events(my_method),
                    { rbf_call(fit, XgYg[1], XgYg[2]) :
                        fit \in Rbf(f.x, f.y, f.z, rbf_func(my_method)) })

----------------------------------------------------------------------------
\* clipDFbyShape

\* A boundary argument: its Python type and, for a GeoDataFrame or the file
\* a path names, whether it carries a CRS.
Shapefiles ==
    { [type |-> ty, crs |-> c] : ty \in {"str", "Path", "GeoDataFrame"},
                                 c \in BOOLEAN }
    \cup { [type |-> "dict", crs |-> FALSE] }

NoShapefile == [type |-> "", crs |-> FALSE]

\* Whether `shapefile.crs` can be read: a str or a Path has no such attribute.
has_crs_attribute(shapefile) == shapefile.type = "GeoDataFrame"

clipDFbyShape(t, shapefile, coor) ==
    Effect(t, coor, None, <<>>,
        IF shapefile.type \notin {"str", "Path", "GeoDataFrame"}
        THEN {Raise("TypeError", "normalise")}
        ELSE LET shp == [crs |-> shapefile.crs]
             IN  IF ~shp.crs THEN {Raise("ValueError", "crs_check")}
                 ELSE LET base_cols == t.columns
                      IN  IF ~HasColumn(t, coor[2]) \/ ~HasColumn(t, coor[1])
                          THEN {Raise("KeyError", "gdf_csv")}
                          ELSE IF ~has_crs_attribute(shapefile)
                          THEN {Raise("AttributeError", "gdf_csv")}
                          ELSE {ReturnCols(base_cols)})

----------------------------------------------------------------------------
\* The caller

Functions == {"get_grid_from_df", "getInterpArray_griddata", "getInterpArray_rbf"}

\* def f(..., points_xy=['lon', 'lat'], ...): one list per function, made
\* when the module is imported and shared by every call that omits it.
DefaultPointsXY == [f \in Functions |-> <<"lon", "lat">>]

DefaultFeature == "temperature_2m"

DefaultCoor == <<"smap_lat", "smap_lon">>

\* The points_xy a caller passes itself; "x" is no column of the table.
GivenPointsXY == { <<"lat", "lon">>, <<"x", "lat">> }

GivenCoor == { <<"lat", "lon">> }

\* The grids a caller passes: meshgrids, a pair of arrays of different
\* shapes that broadcast, a pair that do not, a pair of 1-D arrays, a tuple
\* of one array and None.
GridPool ==
    { None,
      Some(<<meshgrid(<<1, 2>>, <<10, 20>>)[1]>>),
      Some(meshgrid(<<1, 2>>, <<10, 20>>)),
      Some(meshgrid(<<1, 2, 3>>, <<10, 20>>)),
      Some(<<meshgrid(<<1, 2>>, <<10, 20>>)[1], meshgrid(<<1, 2>>, <<10>>)[2]>>),
      Some(<<meshgrid(<<1, 2>>, <<10, 20>>)[1], meshgrid(<<1, 2, 3>>, <<10, 20>>)[2]>>),
      Some(<<Array(<<2>>, <<1, 2>>), Array(<<2>>, <<10, 20>>)>>) }

GriddataMethods ==
    { Some(s_linear), Some(s_nearest), Some(s_cubic), Some(s_quintic),
      Some(s_Linear) }

RbfMethods ==
    { Some(k) : k \in RbfKernels }
    \cup { Some(s_nearest), Some(s_foobar), Some(s_Linear), Some(s_NEAREST),
           Some(s_empty), None }

NoCall == [fn |-> "", points_xy |-> <<>>, my_method |-> None,
           shapefile |-> NoShapefile, out |-> NoOutcome]

Init ==
    /\ df = Table(<<>>)
    /\ my_grid = None
    /\ defaults = DefaultPointsXY
    /\ last = NoCall
    /\ events = <<>>

\* Between calls (last = NoCall) the caller edits its table, takes a grid or
\* calls a function; a call's outcome stays in `last` until the caller takes
\* it.

\* The caller adds a row to its table.
AppendRow ==
    /\ last = NoCall
    /\ Len(df.rows) < MaxRows
    /\ \E r \in RowPool : ~Member(df.rows, r) /\ df' = Table(Append(df.rows, r))
    /\ UNCHANGED <<my_grid, defaults, last, events>>

\* The caller starts a new table.
NewTable ==
    /\ last = NoCall
    /\ df.rows # <<>>
    /\ df' = Table(<<>>)
    /\ UNCHANGED <<my_grid, defaults, last, events>>

\* The caller takes another grid.
SetGrid ==
    /\ last = NoCall
    /\ \E g \in GridPool : g # my_grid /\ my_grid' = g
    /\ UNCHANGED <<df, defaults, last, events>>

\* The caller takes the outcome of the call.
TakeResult ==
    /\ last # NoCall
    /\ last' = NoCall
    /\ events' = <<>>
    /\ UNCHANGED <<df, my_grid, defaults>>

\* get_grid_from_df(df)
CallGetGridDefault ==
    LET e == get_grid_from_df(df, defaults["get_grid_from_df"])
    IN  /\ last = NoCall
        /\ \E o \in e.outs :
               last' = [NoCall EXCEPT !.fn = "get_grid_from_df",
                                      !.points_xy = defaults["get_grid_from_df"],
                                      !.out = o]
        /\ df' = e.df
        /\ defaults' = [defaults EXCEPT !["get_grid_from_df"] = e.points_xy]
        /\ events' = e.events
        /\ UNCHANGED my_grid

\* get_grid_from_df(df, points_xy=[...])
CallGetGridGiven ==
    \E pxy \in GivenPointsXY :
        LET e == get_grid_from_df(df, pxy)
        IN  /\ last = NoCall
            /\ \E o \in e.outs :
                   last' = [NoCall EXCEPT !.fn = "get_grid_from_df",
                                          !.points_xy = pxy, !.out = o]
            /\ df' = e.df
            /\ events' = e.events
            /\ UNCHANGED <<my_grid, defaults>>

\* getInterpArray_griddata(df, my_grid=my_grid, my_method=m)
CallGriddata ==
    \E m \in GriddataMethods :
        LET f == "getInterpArray_griddata"
            e == getInterpArray_griddata(df, defaults[f], DefaultFeature, my_grid, m)
        IN  /\ last = NoCall
            /\ \E o \in e.outs :
                   last' = [NoCall EXCEPT !.fn = f, !.points_xy = defaults[f],
                                          !.my_method = m, !.out = o]
            /\ df' = e.df
            /\ my_grid' = e.my_grid
            /\ defaults' = [defaults EXCEPT ![f] = e.points_xy]
            /\ events' = e.events

\* getInterpArray_rbf(df, my_grid=my_grid, my_method=m)
CallRbf ==
    \E m \in RbfMethods :
        LET f == "getInterpArray_rbf"
            e == getInterpArray_rbf(df, defaults[f], DefaultFeature, my_grid, m)
        IN  /\ last = NoCall
            /\ \E o \in e.outs :
                   last' = [NoCall EXCEPT !.fn = f, !.points_xy = defaults[f],
                                          !.my_method = m, !.out = o]
            /\ df' = e.df
            /\ my_grid' = e.my_grid
            /\ defaults' = [defaults EXCEPT ![f] = e.points_xy]
            /\ events' = e.events

\* clipDFbyShape(df, shapefile) and clipDFbyShape(df, shapefile, coor=(...))
CallClip ==
    \E shapefile \in Shapefiles, coor \in {DefaultCoor} \cup GivenCoor :
        LET e == clipDFbyShape(df, shapefile, coor)
        IN  /\ last = NoCall
            /\ \E o \in e.outs :
                   last' = [NoCall EXCEPT !.fn = "clipDFbyShape",
                                          !.points_xy = coor,
                                          !.shapefile = shapefile, !.out = o]
            /\ df' = e.df
            /\ events' = e.events
            /\ UNCHANGED <<my_grid, defaults>>

Next ==
    \/ AppendRow
    \/ NewTable
    \/ SetGrid
    \/ TakeResult
    \/ CallGetGridDefault
    \/ CallGetGridGiven
    \/ CallGriddata
    \/ CallRbf
    \/ CallClip

Spec == Init /\ [][Next]_vars

----------------------------------------------------------------------------
\* Properties

Interpolators == {"getInterpArray_griddata", "getInterpArray_rbf"}

\* The distinct values of a column; all NaN are one value, as for pandas.
Values(t, c) == { t.rows[i][c] : i \in 1..Len(t.rows) }

\* How many values of S come before v in ascending order (NaN last).
Rank(S, v) == Cardinality({ u \in S : SortsBefore(u, v) })

\* C1: whenever the table has the two coordinate columns get_grid_from_df
\* returns two arrays of shape (distinct y-values) x (distinct x-values)
\* holding one entry per node, where Xg[i][j] is the distinct x-value of
\* rank j and Yg[i][j] is the distinct y-value of rank i in ascending order:
\* rows by ascending y, columns by ascending x, the whole cartesian product,
\* also for the nodes no row of the table lies on.  (A NaN coordinate is a
\* distinct value of its own and np.sort puts it last.)
GridIsSortedCartesianProduct ==
    last.fn = "get_grid_from_df" =>
        LET xf == last.points_xy[1]
            yf == last.points_xy[2]
        IN  (HasColumn(df, xf) /\ HasColumn(df, yf)) =>
                /\ last.out.kind = "return"
                /\ Len(last.out.grid) = 2
                /\ LET Xg == last.out.grid[1]
                       Yg == last.out.grid[2]
                       xs == Values(df, xf)
                       ys == Values(df, yf)
                       nx == Cardinality(xs)
                       ny == Cardinality(ys)
                   IN  /\ Xg.shape = <<ny, nx>>
                       /\ Yg.shape = <<ny, nx>>
                       /\ Len(Xg.data) = ny * nx
                       /\ Len(Yg.data) = ny * nx
                       /\ \A i \in 0..(ny - 1), j \in 0..(nx - 1) :
                              /\ At(Xg, i, j) \in xs
                              /\ Rank(xs, At(Xg, i, j)) = j
                              /\ At(Yg, i, j) \in ys
                              /\ Rank(ys, At(Yg, i, j)) = i

\* C1 witness: x in {1,2,3}, y in {10,20}, three rows given out of order, so
\* that three of the six nodes have no observation: a 2x3 grid, row 0 = y 10,
\* row 1 = y 20, columns x = 1, 2, 3.
GridScenarioBuilt ==
    /\ last.fn = "get_grid_from_df"
    /\ last.out.kind = "return"
    /\ Len(df.rows) = 3
    /\ df.rows[1].lon = 3
    /\ last.points_xy = <<"lon", "lat">>
    /\ last.out.grid[1] = Array(<<2, 3>>, <<1, 2, 3, 1, 2, 3>>)
    /\ last.out.grid[2] = Array(<<2, 3>>, <<10, 10, 10, 20, 20, 20>>)

\* C7: get_grid_from_df fails (any exception is counted as the
\* InvalidInputError) and returns no grid whenever one of the two named
\* coordinate fields is absent from the table or has no rows.
GridBuilderRejectsBadInput ==
    last.fn = "get_grid_from_df" =>
        LET BadField(c) == ~HasColumn(df, c) \/ Len(df.rows) = 0
        IN  (BadField(last.points_xy[1]) \/ BadField(last.points_xy[2])) =>
                /\ last.out.kind = "raise"
                /\ last.out.grid = <<>>

\* The kernel the mapping policy names for a method name taken as written.
PolicyKernel(name) ==
    IF name \in RbfKernels THEN name
    ELSE IF name = s_nearest THEN s_linear
    ELSE s_thin_plate

SameIgnoringCase(a, b) ==
    /\ Len(a) = Len(b)
    /\ \A i \in 1..Len(a) : lower_char(a[i]) = lower_char(b[i])

UsableRows(rows, xf, yf, feature) ==
    LET Usable(r) == ~isnan(r[xf]) /\ ~isnan(r[yf]) /\ ~isnan(r[feature])
    IN  SelectSeq(rows, Usable)

InsertAt(rows, k, r) ==
    SubSeq(rows, 1, k) \o <<r>> \o SubSeq(rows, k + 1, Len(rows))

\* C3: the points and values either strategy hands to its interpolator are
\* those of the rows whose x, y and value are all non-NaN, in their order;
\* both strategies keep the same rows; and a row without a value, put
\* anywhere in the table, changes what neither of them keeps.
NaNFilterKeepsUsableRows ==
    LET xf == "lon"
        yf == "lat"
        kept == UsableRows(df.rows, xf, yf, DefaultFeature)
        G == griddata_filtered(df, <<xf, yf>>, DefaultFeature)
        R == rbf_filtered(df, <<xf, yf>>, DefaultFeature)
    IN  /\ (last.fn \in Interpolators /\ last.out.handed.lib # "") =>
               /\ last.points_xy = <<xf, yf>>
               /\ last.out.handed.points =
                      [i \in 1..Len(kept) |-> Point(kept[i][xf], kept[i][yf])]
               /\ last.out.handed.values =
                      [i \in 1..Len(kept) |-> kept[i][DefaultFeature]]
        /\ G.points = [i \in 1..Len(R.x) |-> Point(R.x[i], R.y[i])]
        /\ G.values = R.z
        /\ \A r \in RowPool : isnan(r[DefaultFeature]) =>
               \A k \in 0..Len(df.rows) :
                   LET t == Table(InsertAt(df.rows, k, r))
                   IN  /\ griddata_filtered(t, <<xf, yf>>, DefaultFeature) = G
                       /\ rbf_filtered(t, <<xf, yf>>, DefaultFeature) = R

\* C3 witness: an interpolator was handed fewer points than the table has
\* rows, the table holding a row whose coordinates are present and whose
\* value is NaN.
NaNRowsWereFiltered ==
    /\ last.fn \in Interpolators
    /\ last.out.handed.points # <<>>
    /\ Len(last.out.handed.points) < Len(df.rows)
    /\ \E i \in 1..Len(df.rows) :
           /\ isnan(df.rows[i][DefaultFeature])
           /\ ~isnan(df.rows[i].lon) /\ ~isnan(df.rows[i].lat)

\* A grid as the contract wants it: a pair of 2-D arrays of one shape.
ValidGrid(g) ==
    /\ ~g.none
    /\ Len(g.v) = 2
    /\ g.v[1].shape = g.v[2].shape
    /\ Len(g.v[1].shape) = 2

\* The error of the specification's taxonomy an outcome is: the ValueError of
\* the functions' own grid check is the InvalidGridError; an exception that
\* comes out of pandas or scipy is none of them and keeps its Python name.
ErrorClass(o) ==
    IF o.kind # "raise" THEN ""
    ELSE IF o.at = "grid_check" THEN "InvalidGridError"
    ELSE o.exc

\* C4: whenever the grid is absent, is no pair, has arrays of different
\* shapes or arrays that are not 2-D, the call fails with InvalidGridError
\* and nothing has been handed to an interpolator (stated for the tables
\* whose usable points every method can fit, so that no failure is one of
\* the point set).
GridPreconditionIsChecked ==
    (last.fn \in Interpolators /\ ~ValidGrid(my_grid)
        /\ Len(UsableRows(df.rows, "lon", "lat", DefaultFeature)) = Len(df.rows)
        /\ Cardinality(Values(df, "lon")) = 3) =>
        /\ ErrorClass(last.out) = "InvalidGridError"
        /\ last.out.handed = NotHanded

\* The distinct points left after NaN filtering.
UsablePoints(t, xf, yf, feature) ==
    LET kept == UsableRows(t.rows, xf, yf, feature)
    IN  { Point(kept[i][xf], kept[i][yf]) : i \in 1..Len(kept) }

\* C5: on a valid grid, getInterpArray_griddata with linear or cubic fails
\* with InsufficientDataError when 1 or 2 distinct usable points remain, and
\* with nearest it succeeds when at least 1 remains.
TooFewPointsIsInsufficientData ==
    (last.fn = "getInterpArray_griddata" /\ ValidGrid(my_grid)) =>
        LET n == Cardinality(UsablePoints(df, "lon", "lat", DefaultFeature))
        IN  /\ (last.my_method \in {Some(s_linear), Some(s_cubic)}
                    /\ n >= 1 /\ n < 3)
                => ErrorClass(last.out) = "InsufficientDataError"
            /\ (last.my_method = Some(s_nearest) /\ n >= 1)
                => last.out.kind = "return"

\* C6: a call of getInterpArray_rbf that returns after substituting a kernel
\* (the requested name, up to case, is none of the seven kernels) has
\* reported an event, and a call that asks for one of the seven reports none.
KernelSubstitutionIsReported ==
    (last.fn = "getInterpArray_rbf" /\ last.out.kind = "return") =>
        LET name == IF last.my_method.none THEN s_empty ELSE last.my_method.v
            supported == \E k \in RbfKernels : SameIgnoringCase(name, k)
        IN  /\ ~supported => events # <<>>
            /\ supported => events = <<>>

\* C8: a call of either interpolator that returns, on a grid of two 2-D
\* arrays of one shape, returns an array of the shape of Xg and of Yg,
\* whatever the method and however many rows the NaN filter removed.
ResultHasGridShape ==
    (last.fn \in Interpolators /\ last.out.kind = "return" /\ ValidGrid(my_grid)) =>
        /\ last.out.shape = my_grid.v[1].shape
        /\ last.out.shape = my_grid.v[2].shape

\* C8 witness: an interpolator returned a 2x3 array after the filter removed
\* rows.
ShapedResultAfterFiltering ==
    /\ last.fn \in Interpolators
    /\ last.out.kind = "return"
    /\ ValidGrid(my_grid)
    /\ last.out.shape = <<2, 3>>
    /\ Len(last.out.handed.points) < Len(df.rows)

\* The outcomes of a call, from its own arguments alone.
OutcomesOf(call, t, g) ==
    IF call.fn = "get_grid_from_df"
    THEN get_grid_from_df(t, call.points_xy).outs
    ELSE IF call.fn = "getInterpArray_griddata"
    THEN getInterpArray_griddata(t, call.points_xy, DefaultFeature, g,
                                 call.my_method).outs
    ELSE getInterpArray_rbf(t, call.points_xy, DefaultFeature, g,
                            call.my_method).outs

\* C9: a call of get_grid_from_df, getInterpArray_griddata or
\* getInterpArray_rbf, failing or not, leaves the caller's table, the
\* caller's grid and the shared default points_xy lists as they were, and its
\* outcome is one its own arguments determine.
CoreCallsHaveNoSideEffects ==
    [][ (last.fn = "" /\ last'.fn \in Functions) =>
            /\ df' = df
            /\ my_grid' = my_grid
            /\ defaults' = defaults
            /\ defaults' = DefaultPointsXY
            /\ last'.out \in OutcomesOf(last', df, my_grid) ]_vars

\* C9 witness: a call failed inside scipy after the filter had removed rows,
\* and the table still has them all.
FailedCallAfterFiltering ==
    /\ last.fn \in Interpolators
    /\ last.out.kind = "raise"
    /\ last.out.handed.lib # ""
    /\ Len(last.out.handed.points) < Len(df.rows)
    /\ Len(df.rows) = MaxRows

\* C10: clipDFbyShape returns a table of the original columns for a boundary
\* with a CRS, given as a path (str, Path) or as a GeoDataFrame alike (the
\* coordinate columns being in the table); a boundary of another type fails
\* with TypeError and one without CRS with ValueError.  (last.points_xy holds
\* the call's coor.)
ClipAcceptsPathAndGeoDataFrame ==
    last.fn = "clipDFbyShape" =>
        LET known == last.shapefile.type \in {"str", "Path", "GeoDataFrame"}
            coor == last.points_xy
        IN  /\ (known /\ last.shapefile.crs
                    /\ HasColumn(df, coor[1]) /\ HasColumn(df, coor[2]))
                => (last.out.kind = "return" /\ last.out.cols = df.columns)
            /\ ~known => last.out.exc = "TypeError"
            /\ (known /\ ~last.shapefile.crs) => last.out.exc = "ValueError"

====
